---- MODULE Spec2Model ----
(***************************************************************************)
(* utils/tools.py: the module-level data (df_test, df_AP, distances) and   *)
(* the two functions get_distances and expected_rssi.                      *)
(*                                                                         *)
(* Units.  Coordinates and H are whole metres.  A distance or an RSSI is   *)
(* kept in hundredths (the code rounds both to 2 decimals): 5.0 is 500,    *)
(* -60.0 is -6000.  A logarithm and an unrounded RSSI are kept in          *)
(* millionths.  A table cell is a record [kind, v]: a number, None, NaN,   *)
(* +inf or -inf, the values a pandas cell can hold here.                   *)
(***************************************************************************)
EXTENDS Integers, Sequences, FiniteSets, TLC

VARIABLES
    df_test,        \* module level: the point table read from test_data.csv
    df_AP,          \* module level: the access-point table read from AP_crd.csv
    distances,      \* module level: get_distances(df_test, df_AP, H=2.0)
    pc,             \* where the importing script is
    df,             \* get_distances: argument df
    ap_df,          \* get_distances: argument ap_df
    H,              \* get_distances: argument H
    distances_list, \* get_distances: the returned list of dicts
    in_distances,   \* expected_rssi: argument distances
    df_ap,          \* expected_rssi: argument df_ap
    log_params,     \* expected_rssi: argument log_params
    rssi_df         \* expected_rssi: the returned table, or the exception raised

vars == <<df_test, df_AP, distances, pc, df, ap_df, H, distances_list,
          in_distances, df_ap, log_params, rssi_df>>

-----------------------------------------------------------------------------
(* Bounds of the model. *)

\* Most rows in a point table and in a hand-written list of distance dicts.
MaxRows == 2
\* Most rows in an access-point table.
MaxAPs == 2

-----------------------------------------------------------------------------
(* Cells. *)

Num(n) == [kind |-> "num", v |-> n]
None == [kind |-> "None", v |-> 0]
NaN == [kind |-> "nan", v |-> 0]
PosInf == [kind |-> "inf", v |-> 0]
NegInf == [kind |-> "-inf", v |-> 0]

IsNum(cell) == cell.kind = "num"
\* pandas isna: None and NaN are the missing ("undefined") values.
IsNA(cell) == cell.kind \in {"None", "nan"}

-----------------------------------------------------------------------------
(* Tables the functions are called with. *)

\* The identity columns every point table carries.
IdentityColumns == {"LABEL", "DEVICE", "X", "Y"}

PointRows ==
    { [LABEL |-> "A", DEVICE |-> "d1", X |-> 0, Y |-> 0],
      [LABEL |-> "B", DEVICE |-> "d2", X |-> 3, Y |-> 4] }

\* The columns a point table has besides the identity columns.
ColumnSets == { {"WAP1"}, {"WAP1", "WAP2", "TIMESTAMP"} }

RECURSIVE SeqsUpTo(_, _)
SeqsUpTo(S, n) ==
    IF n = 0 THEN { <<>> }
    ELSE LET shorter == SeqsUpTo(S, n - 1)
         IN  shorter \cup { Append(s, x) : s \in shorter, x \in S }

PointTables == { [cols |-> c, rows |-> r] : c \in ColumnSets, r \in SeqsUpTo(PointRows, MaxRows) }

APRows ==
    { [AP |-> "WAP1", x |-> 3, y |-> 4],
      [AP |-> "WAP1", x |-> 1, y |-> 2],
      [AP |-> "WAP3", x |-> 0, y |-> 0] }

APTables == SeqsUpTo(APRows, MaxAPs)

HValues == {0, 2, 12}

Columns(table) == IdentityColumns \cup table.cols

-----------------------------------------------------------------------------
(* get_distances *)

\* str.startswith
StartsWith(col, prefix) ==
    Len(col) >= Len(prefix) /\ SubSeq(col, 1, Len(prefix)) = prefix

wap_columns(table) == { col \in Columns(table) : StartsWith(col, "WAP") }

\* The dict ap_coords after the first n rows of ap_df: a later row of the same
\* name overwrites an earlier one.
RECURSIVE ap_coords_after(_, _, _)
ap_coords_after(aps, waps, n) ==
    IF n = 0 THEN [k \in {} |-> <<0, 0>>]
    ELSE LET before == ap_coords_after(aps, waps, n - 1)
             row == aps[n]
         IN  IF row.AP \in waps
             THEN [k \in (DOMAIN before) \cup {row.AP} |->
                      IF k = row.AP THEN <<row.x, row.y>> ELSE before[k]]
             ELSE before

ap_coords(aps, waps) == ap_coords_after(aps, waps, Len(aps))

\* The largest k with k*k <= n, between lo and hi (lo*lo <= n < hi*hi).
RECURSIVE IsqrtBetween(_, _, _)
IsqrtBetween(n, lo, hi) ==
    IF hi - lo <= 1 THEN lo
    ELSE LET mid == (lo + hi) \div 2
         IN  IF mid * mid <= n THEN IsqrtBetween(n, mid, hi)
             ELSE IsqrtBetween(n, lo, mid)

Isqrt(n) == IsqrtBetween(n, 0, 46340)

\* round(s ** 0.5, 2) in hundredths, for a whole number s: the integer nearest
\* to sqrt(10000 * s). The square root of a whole number is never half way
\* between two hundredths, so the rounding mode does not matter.
RoundedRoot(s) ==
    LET n == 10000 * s
        k == Isqrt(n)
    IN  IF n - k * k > k THEN k + 1 ELSE k

DistanceNoHeight(px, py, ap_x, ap_y, h) ==
    RoundedRoot((px - ap_x) * (px - ap_x) + (py - ap_y) * (py - ap_y))

\* Lines 58-59: the rounded 3D distance.
Distance(px, py, ap_x, ap_y, h) ==
    RoundedRoot((px - ap_x) * (px - ap_x) + (py - ap_y) * (py - ap_y) + h * h)

RowDistancesKnownOnly(row, waps, coords, h) ==
    [w \in (waps \cap DOMAIN coords) |->
        Num(Distance(row.X, row.Y, coords[w][1], coords[w][2], h))]

\* Lines 50-62: the dict of one point.
RowDistances(row, waps, coords, h) ==
    [w \in waps |->
        IF w \in DOMAIN coords
        THEN Num(Distance(row.X, row.Y, coords[w][1], coords[w][2], h))
        ELSE None]

get_distances(table, aps, h) ==
    LET waps == wap_columns(table)
        coords == ap_coords(aps, waps)
    IN  [i \in 1..Len(table.rows) |-> RowDistances(table.rows[i], waps, coords, h)]

-----------------------------------------------------------------------------
(* expected_rssi *)

LogParams == { [rho_0 |-> 40, alpha |-> 2], [rho_0 |-> 30, alpha |-> 3] }

\* Rows of a hand-written list of distance dicts: WAP1 holds a distance, WAP2
\* a value that is no distance of any point (a column of a mixed table).
DistanceRows ==
    { [c \in {"WAP1", "WAP2"} |-> IF c = "WAP1" THEN a ELSE b] :
        a \in {None, Num(0), Num(224), Num(1000), Num(1000000)},
        b \in {None, Num(-15000)} }

DistanceLists == SeqsUpTo(DistanceRows, MaxRows)

\* expected_rssi reads only the AP column of df_ap: one table per set of names.
RssiAPTables ==
    { <<>>,
      <<[AP |-> "WAP1", x |-> 3, y |-> 4]>>,
      <<[AP |-> "WAP3", x |-> 0, y |-> 0]>>,
      <<[AP |-> "WAP1", x |-> 3, y |-> 4], [AP |-> "WAP3", x |-> 0, y |-> 0]>> }

\* The lower bound of the clip (line 104), in whole dB.
ClipLower == -100

\* pd.DataFrame(distances): one row per dict, one column per key. A column that
\* holds None in every row keeps dtype object and its None; in any other column
\* a None or a missing key becomes NaN.
DataFrame(dists) ==
    LET cols == UNION { DOMAIN dists[i] : i \in 1..Len(dists) }
        raw(i, c) == IF c \in DOMAIN dists[i] THEN dists[i][c] ELSE NaN
        object(c) == \A i \in 1..Len(dists) : raw(i, c) = None
    IN  [cols |-> cols,
         rows |-> [i \in 1..Len(dists) |->
                     [c \in cols |->
                        IF object(c) THEN None
                        ELSE IF raw(i, c) = None THEN NaN ELSE raw(i, c)]]]

\* A column np.log10 cannot take: dtype object, None in every row.
IsObjectColumn(frame, c) ==
    Len(frame.rows) > 0 /\ \A i \in 1..Len(frame.rows) : frame.rows[i][c] = None

\* log10 of a distance in hundredths, in millionths (np.log10 to 6 decimals), for
\* the distances the tables above produce.
Log10Micro(d) ==
    CASE d = 200 -> 301030
      [] d = 224 -> 350248
      [] d = 283 -> 451786
      [] d = 300 -> 477121
      [] d = 346 -> 539076
      [] d = 500 -> 698970
      [] d = 539 -> 731589
      [] d = 1000 -> 1000000
      [] d = 1200 -> 1079181
      [] d = 1221 -> 1086716
      [] d = 1233 -> 1090963
      [] d = 1300 -> 1113943
      [] d = 1000000 -> 4000000

\* np.log10 of a float cell: log10(0) is -inf (a warning, no exception), the
\* log10 of a negative number and of NaN is NaN.
Log10(cell) ==
    CASE IsNum(cell) /\ cell.v > 0 -> Num(Log10Micro(cell.v))
      [] IsNum(cell) /\ cell.v = 0 -> NegInf
      [] IsNum(cell) /\ cell.v < 0 -> NaN
      [] cell = PosInf -> PosInf
      [] OTHER -> NaN

\* c * x for a whole number c and a float x.
Times(c, x) ==
    CASE IsNum(x) -> Num(c * x.v)
      [] x \in {PosInf, NegInf} /\ c > 0 -> x
      [] x = PosInf /\ c < 0 -> NegInf
      [] x = NegInf /\ c < 0 -> PosInf
      [] OTHER -> NaN

\* a - x for a finite a (in millionths) and a float x.
Minus(a, x) ==
    CASE IsNum(x) -> Num(a - x.v)
      [] x = PosInf -> NegInf
      [] x = NegInf -> PosInf
      [] OTHER -> NaN

PathLossNoFactor(cell, params) ==
    Minus(-params.rho_0 * 1000000, Times(params.alpha, Log10(cell)))

\* Line 100: - rho_0 - 10 * alpha * log10(d), in millionths.
PathLoss(cell, params) ==
    Minus(-params.rho_0 * 1000000, Times(10 * params.alpha, Log10(cell)))

\* Line 102: Series.round(2), millionths to hundredths, half to even.
Round2(x) ==
    IF ~IsNum(x) THEN x
    ELSE LET q == x.v \div 10000
             r == x.v % 10000
         IN  Num(CASE r > 5000 -> q + 1
                   [] r < 5000 -> q
                   [] OTHER -> IF q % 2 = 0 THEN q ELSE q + 1)

ClipNone(cell) == cell

\* Line 104: clip(lower=-100, upper=None) of one cell, as pandas 2 computes it
\* (where(isna | (frame >= lower), lower)): a missing value stays, in a float
\* column and in an object column of None alike; -inf is below the bound.
Clip(cell) ==
    CASE IsNum(cell) /\ cell.v < ClipLower * 100 -> Num(ClipLower * 100)
      [] cell = NegInf -> Num(ClipLower * 100)
      [] OTHER -> cell

\* df_ap['AP'].values
APNames(aps) == { aps[n].AP : n \in 1..Len(aps) }

Raised(exception) == [status |-> exception, cols |-> {}, rows |-> <<>>, ident |-> <<>>]

\* Lines 107-112: the four identity columns, taken from the module's df_test.
\* An empty frame takes the index of the first column assigned to it; any other
\* frame needs as many values as it has rows.
AttachIdentity(frame) ==
    LET n == Len(df_test.rows)
        ident == [i \in 1..n |->
                    [LABEL |-> df_test.rows[i].LABEL, DEVICE |-> df_test.rows[i].DEVICE,
                     X |-> df_test.rows[i].X, Y |-> df_test.rows[i].Y]]
    IN  IF Len(frame.rows) = 0
        THEN [status |-> "ok", cols |-> frame.cols,
              rows |-> [i \in 1..n |-> [c \in frame.cols |-> NaN]], ident |-> ident]
        ELSE IF Len(frame.rows) # n
        THEN Raised("ValueError")
        ELSE [status |-> "ok", cols |-> frame.cols, rows |-> frame.rows, ident |-> ident]

\* Lines 94-114. The result is the table (its RSSI columns in rows, its identity
\* columns in ident) or the exception raised: TypeError when np.log10 is given an
\* object column, ValueError when df_test has another number of rows. The
\* distance columns are not named LABEL, DEVICE, X or Y.
expected_rssi(dists, aps, params) ==
    LET frame == DataFrame(dists)
        known == frame.cols \cap APNames(aps)
        converted ==
            [i \in 1..Len(frame.rows) |->
                [c \in frame.cols |->
                    IF c \in known THEN Round2(PathLoss(frame.rows[i][c], params))
                    ELSE frame.rows[i][c]]]
        clipped ==
            [i \in 1..Len(frame.rows) |-> [c \in frame.cols |-> Clip(converted[i][c])]]
    IN  IF \E c \in known : IsObjectColumn(frame, c)
        THEN Raised("TypeError")
        ELSE AttachIdentity([cols |-> frame.cols, rows |-> clipped])

-----------------------------------------------------------------------------
(* The module body (lines 7-16 and 68) and the script that imports it. *)

\* The H of the module's own call of get_distances (line 68).
ModuleH == 2

\* What test_data.csv and AP_crd.csv may hold.
CsvPointTables == { t \in PointTables : t.cols = {"WAP1", "WAP2", "TIMESTAMP"} }
CsvAPTables ==
    { <<[AP |-> "WAP1", x |-> 3, y |-> 4]>>,
      <<[AP |-> "WAP1", x |-> 1, y |-> 2], [AP |-> "WAP3", x |-> 0, y |-> 0]>> }

\* Line 14: DataFrame.replace(100, -100), on every numeric cell of the table.
Replace100(table) ==
    LET swap(n) == IF n = 100 THEN -100 ELSE n
    IN  [cols |-> table.cols,
         rows |-> [i \in 1..Len(table.rows) |->
                     [LABEL |-> table.rows[i].LABEL, DEVICE |-> table.rows[i].DEVICE,
                      X |-> swap(table.rows[i].X), Y |-> swap(table.rows[i].Y)]]]

NoTable == [cols |-> {}, rows |-> <<>>]
NoResult == [status |-> "none", cols |-> {}, rows |-> <<>>, ident |-> <<>>]

\* The module body: lines 14, 16 and 68.
Import(csv_test, csv_ap) ==
    /\ df_test' = Replace100(csv_test)
    /\ df_AP' = csv_ap
    /\ distances' = get_distances(Replace100(csv_test), csv_ap, ModuleH)

Init ==
    /\ \E csv_test \in CsvPointTables, csv_ap \in CsvAPTables :
          /\ df_test = Replace100(csv_test)
          /\ df_AP = csv_ap
          /\ distances = get_distances(Replace100(csv_test), csv_ap, ModuleH)
    /\ pc = "imported"
    /\ df = NoTable
    /\ ap_df = <<>>
    /\ H = 0
    /\ distances_list = <<>>
    /\ in_distances = <<>>
    /\ df_ap = <<>>
    /\ log_params = [rho_0 |-> 0, alpha |-> 0]
    /\ rssi_df = NoResult

\* A call get_distances(df, ap_df, H).
CallGetDistances ==
    /\ pc = "imported"
    /\ \E table \in PointTables, aps \in APTables, h \in HValues :
          /\ df' = table
          /\ ap_df' = aps
          /\ H' = h
          /\ distances_list' = get_distances(table, aps, h)
    /\ pc' = "distances"
    /\ UNCHANGED <<df_test, df_AP, distances, in_distances, df_ap, log_params, rssi_df>>

\* The second stage: expected_rssi on the list get_distances returned, with the
\* access-point table it was computed with.
CallExpectedRssi ==
    /\ pc = "distances"
    /\ \E params \in LogParams :
          /\ in_distances' = distances_list
          /\ df_ap' = ap_df
          /\ log_params' = params
          /\ rssi_df' = expected_rssi(distances_list, ap_df, params)
    /\ pc' = "rssi"
    /\ UNCHANGED <<df_test, df_AP, distances, df, ap_df, H, distances_list>>

\* A call of expected_rssi on a hand-written list of distance dicts.
CallExpectedRssiOnList ==
    /\ pc = "imported"
    /\ \E dists \in DistanceLists, aps \in RssiAPTables, params \in LogParams :
          /\ in_distances' = dists
          /\ df_ap' = aps
          /\ log_params' = params
          /\ rssi_df' = expected_rssi(dists, aps, params)
    /\ pc' = "rssi"
    /\ UNCHANGED <<df_test, df_AP, distances, df, ap_df, H, distances_list>>

\* The module is loaded again (importlib.reload) after the CSV files changed.
ReloadModule ==
    /\ pc = "rssi"
    /\ \E csv_test \in CsvPointTables, csv_ap \in CsvAPTables : Import(csv_test, csv_ap)
    /\ pc' = "reloaded"
    /\ UNCHANGED <<df, ap_df, H, distances_list, in_distances, df_ap, log_params, rssi_df>>

\* expected_rssi called once more with the arguments of the last call.
RepeatExpectedRssi ==
    /\ pc = "reloaded"
    /\ rssi_df' = expected_rssi(in_distances, df_ap, log_params)
    /\ pc' = "repeated"
    /\ UNCHANGED <<df_test, df_AP, distances, df, ap_df, H, distances_list,
                   in_distances, df_ap, log_params>>

\* The two-stage pipeline, and a repeated second stage.
Next == CallGetDistances \/ CallExpectedRssi \/ ReloadModule \/ RepeatExpectedRssi
Spec == Init /\ [][Next]_vars

\* get_distances on its own.
NextDist == CallGetDistances
SpecDist == Init /\ [][NextDist]_vars

\* expected_rssi on its own.
NextRssi == CallExpectedRssiOnList
SpecRssi == Init /\ [][NextRssi]_vars

-----------------------------------------------------------------------------
(* get_distances: the claims. *)

\* The row of the access-point table that decides the coordinates of name w:
\* the last one of that name.
RowOf(aps, w) ==
    CHOOSE n \in 1..Len(aps) : aps[n].AP = w /\ \A m \in (n + 1)..Len(aps) : aps[m].AP # w

\* d (hundredths) is the whole number nearest to 100 * sqrt(s).
NearestToRoot(d, s) ==
    /\ d >= 0
    /\ (2 * d - 1 <= 0 \/ (2 * d - 1) * (2 * d - 1) <= 40000 * s)
    /\ 40000 * s <= (2 * d + 1) * (2 * d + 1)

\* C2: for every point row and every WAP column with a row in the access-point
\* table, the returned cell is sqrt((X - ap.x)^2 + (Y - ap.y)^2 + H^2) rounded to
\* 2 decimals; point (0,0) and AP (3,4) give 5.0 with H = 0 and 13.0 with H = 12.
C2_Geometry ==
    pc = "distances" =>
        \A i \in 1..Len(df.rows) : \A w \in wap_columns(df) \cap APNames(ap_df) :
            LET ap == ap_df[RowOf(ap_df, w)]
                p == df.rows[i]
                cell == distances_list[i][w]
                s == (p.X - ap.x) * (p.X - ap.x) + (p.Y - ap.y) * (p.Y - ap.y) + H * H
            IN  /\ IsNum(cell)
                /\ NearestToRoot(cell.v, s)
                /\ (p.X = 0 /\ p.Y = 0 /\ ap.x = 3 /\ ap.y = 4 /\ H = 0) => cell.v = 500
                /\ (p.X = 0 /\ p.Y = 0 /\ ap.x = 3 /\ ap.y = 4 /\ H = 12) => cell.v = 1300

\* A call with point (0,0), AP WAP1 at (3,4) and H = 12 that returned 13.0, after
\* an earlier row of the same name at (1,2).
C2_Witness ==
    /\ pc = "distances"
    /\ H = 12
    /\ Len(df.rows) = 2
    /\ df.rows[2].X = 0 /\ df.rows[2].Y = 0
    /\ ap_df = <<[AP |-> "WAP1", x |-> 1, y |-> 2], [AP |-> "WAP1", x |-> 3, y |-> 4]>>
    /\ "WAP1" \in DOMAIN distances_list[2]
    /\ distances_list[2]["WAP1"] = Num(1300)
    /\ distances_list[1]["WAP1"] = Num(1200)

\* C10: the key set of every returned mapping is exactly the WAP channel columns
\* of the point table: an access point without a channel column is no key, and
\* every channel column is a key whether or not its access point is known.
C10_KeySet ==
    pc = "distances" =>
        \A i \in 1..Len(distances_list) :
            LET keys == DOMAIN distances_list[i]
                channels == { col \in IdentityColumns \cup df.cols : StartsWith(col, "WAP") }
            IN  /\ keys = channels
                /\ \A n \in 1..Len(ap_df) : ap_df[n].AP \notin channels => ap_df[n].AP \notin keys
                /\ \A col \in channels : col \in keys

\* A table with channels WAP1 and WAP2 and the column TIMESTAMP, and an
\* access-point table that knows WAP1 and WAP3 only.
C10_Witness ==
    /\ pc = "distances"
    /\ Len(distances_list) = 2
    /\ df.cols = {"WAP1", "WAP2", "TIMESTAMP"}
    /\ APNames(ap_df) = {"WAP1", "WAP3"}
    /\ DOMAIN distances_list[1] = {"WAP1", "WAP2"}
    /\ distances_list[1]["WAP2"] = None

-----------------------------------------------------------------------------
(* expected_rssi: the claims on its RSSI columns. *)

\* - rho_0 - 10 * alpha * log10(d) in millionths, for a distance d > 0 in hundredths.
Unrounded(d, params) == -params.rho_0 * 1000000 - 10 * params.alpha * Log10Micro(d)

\* r (hundredths) is max(-100, the 2-decimal rounding of raw (millionths)).
IsFlooredRounding(r, raw) ==
    /\ r >= -10000
    /\ r > -10000 => (2 * (r * 10000 - raw) <= 10000 /\ 2 * (raw - r * 10000) <= 10000)
    /\ r = -10000 => raw <= -100000000 + 5000

\* C1: for every row of the distance list and every column whose name occurs in
\* df_ap['AP'] and whose distance d is defined and positive, the output cell is
\* max(-100, round(-rho_0 - 10*alpha*log10(d), 2)); rho_0 = 40, alpha = 2 give
\* -60.0 for d = 10 and -100.0 for d = 10000.
C1_PathLoss ==
    (pc = "rssi" /\ rssi_df.status = "ok") =>
        \A i \in 1..Len(in_distances) : \A c \in (DOMAIN in_distances[i]) \cap APNames(df_ap) :
            LET d == in_distances[i][c]
                out == rssi_df.rows[i][c]
            IN  (IsNum(d) /\ d.v > 0) =>
                    /\ IsNum(out)
                    /\ IsFlooredRounding(out.v, Unrounded(d.v, log_params))
                    /\ (log_params = [rho_0 |-> 40, alpha |-> 2] /\ d.v = 1000) => out.v = -6000
                    /\ (log_params = [rho_0 |-> 40, alpha |-> 2] /\ d.v = 1000000) => out.v = -10000

\* rho_0 = 40, alpha = 2 on the distances 10.0 and 10000.0 of the recognised
\* column WAP1: -60.0 and -100.0.
C1_Witness ==
    /\ pc = "rssi"
    /\ rssi_df.status = "ok"
    /\ log_params = [rho_0 |-> 40, alpha |-> 2]
    /\ "WAP1" \in APNames(df_ap)
    /\ Len(in_distances) = 2
    /\ in_distances[1]["WAP1"] = Num(1000) /\ rssi_df.rows[1]["WAP1"] = Num(-6000)
    /\ in_distances[2]["WAP1"] = Num(1000000) /\ rssi_df.rows[2]["WAP1"] = Num(-10000)

\* The value line 102 leaves in row i of the recognised column c, before the clip.
Computed(i, c) == Round2(PathLoss(DataFrame(in_distances).rows[i][c], log_params))

\* C3: every defined value of the returned table is >= -100: a computed RSSI
\* below -100 becomes exactly -100, and one at or above -100 (+inf too: no upper
\* clip) is returned as computed.
C3_Floor ==
    (pc = "rssi" /\ rssi_df.status = "ok") =>
        /\ \A i \in 1..Len(rssi_df.rows) : \A c \in rssi_df.cols :
               IsNum(rssi_df.rows[i][c]) => rssi_df.rows[i][c].v >= -10000
        /\ \A i \in 1..Len(in_distances) : \A c \in rssi_df.cols \cap APNames(df_ap) :
               LET computed == Computed(i, c)
                   out == rssi_df.rows[i][c]
               IN  /\ (IsNum(computed) /\ computed.v < -10000) => out = Num(-10000)
                   /\ (IsNum(computed) /\ computed.v >= -10000) => out = computed
                   /\ computed = PosInf => out = PosInf

\* One call in which a computed -120.0 came back as -100.0 and a computed -47.0
\* came back as it was.
C3_Witness ==
    /\ pc = "rssi"
    /\ rssi_df.status = "ok"
    /\ "WAP1" \in APNames(df_ap)
    /\ Len(in_distances) = 2
    /\ Computed(1, "WAP1") = Num(-12000) /\ rssi_df.rows[1]["WAP1"] = Num(-10000)
    /\ Computed(2, "WAP1") = Num(-4700) /\ rssi_df.rows[2]["WAP1"] = Num(-4700)

\* Two cells hold the same value; None and NaN are the same undefined value.
SameValue(a, b) == (IsNA(a) /\ IsNA(b)) \/ a = b

\* C7: every column of the distance table whose name is not in df_ap['AP'] is in
\* the output with exactly the values it had in the input, values below -100
\* included.
C7_Claim ==
    (pc = "rssi" /\ rssi_df.status = "ok") =>
        \A i \in 1..Len(in_distances) : \A c \in (DOMAIN in_distances[i]) \ APNames(df_ap) :
            /\ c \in rssi_df.cols
            /\ SameValue(rssi_df.rows[i][c], in_distances[i][c])

-----------------------------------------------------------------------------
(* The two stages in sequence: the claims. *)

\* The point table without its column w.
WithoutColumn(table, w) == [cols |-> table.cols \ {w}, rows |-> table.rows]

\* C4: if a WAP column of the point table has no row in the access-point table,
\* get_distances followed by expected_rssi (same access-point table) does not
\* raise, the distance and the RSSI of that column are undefined in every row,
\* and every other column holds what it would hold without that column.
C4_Claim ==
    pc = "rssi" =>
        \A w \in wap_columns(df) \ APNames(ap_df) :
            /\ rssi_df.status = "ok"
            /\ \A i \in 1..Len(df.rows) :
                   IsNA(distances_list[i][w]) /\ IsNA(rssi_df.rows[i][w])
            /\ LET other == expected_rssi(get_distances(WithoutColumn(df, w), ap_df, H),
                                          ap_df, log_params)
               IN  \A i \in 1..Len(df.rows) : \A c \in wap_columns(df) \ {w} :
                       rssi_df.rows[i][c] = other.rows[i][c]

\* C5: when a point coincides with its access point and H = 0, expected_rssi
\* does not raise and the cell is a finite RSSI, neither undefined nor infinite.
\* Stated for the calls whose identity columns fit the table, so that a violation
\* is the zero distance's own.
C5_Claim ==
    (pc = "rssi" /\ H = 0 /\ Len(df_test.rows) = Len(df.rows)) =>
        \A i \in 1..Len(df.rows) : \A w \in wap_columns(df) \cap APNames(ap_df) :
            LET ap == ap_df[RowOf(ap_df, w)]
            IN  (df.rows[i].X = ap.x /\ df.rows[i].Y = ap.y) =>
                    /\ distances_list[i][w] = Num(0)
                    /\ rssi_df.status = "ok"
                    /\ IsNum(rssi_df.rows[i][w])

\* The identity fields of a point.
Identity(p) == [LABEL |-> p.LABEL, DEVICE |-> p.DEVICE, X |-> p.X, Y |-> p.Y]

\* C6: for a non-empty point table, get_distances returns one mapping per point
\* in input order and expected_rssi one row per mapping in the same order, row i
\* carrying the RSSI derived from distances[i] and the LABEL, DEVICE, X and Y
\* of the point distances[i] was computed from. Stated for the calls in which
\* df_test has as many rows as the point table, where expected_rssi returns.
C6_Claim ==
    (pc = "rssi" /\ Len(df.rows) > 0 /\ Len(df_test.rows) = Len(df.rows)) =>
        /\ Len(distances_list) = Len(df.rows)
        /\ rssi_df.status = "ok"
        /\ Len(rssi_df.rows) = Len(distances_list)
        /\ Len(rssi_df.ident) = Len(distances_list)
        /\ \A i \in 1..Len(df.rows) :
               /\ rssi_df.ident[i] = Identity(df.rows[i])
               /\ \A c \in wap_columns(df) \cap APNames(ap_df) :
                      rssi_df.rows[i][c] = Clip(Round2(PathLoss(distances_list[i][c], log_params)))

\* C8: two calls of expected_rssi with identical arguments return identical
\* outputs, whatever the module-level state is at the time of each call. Stated
\* for a list of at least one distance dict.
C8_Claim ==
    [][(pc = "reloaded" /\ pc' = "repeated" /\ Len(in_distances) > 0
          /\ in_distances' = in_distances /\ df_ap' = df_ap /\ log_params' = log_params)
       => rssi_df' = rssi_df]_vars

\* C9: for an empty point sequence get_distances returns an empty list, and
\* expected_rssi on that list returns a table of zero rows; neither raises.
C9_Claim ==
    (pc = "rssi" /\ Len(df.rows) = 0) =>
        /\ distances_list = <<>>
        /\ rssi_df.status = "ok"
        /\ Len(rssi_df.rows) = 0
        /\ Len(rssi_df.ident) = 0

====
